---- MODULE Spec2Model ----
(***************************************************************************)
(* State-machine model of spotify-running-playlist-maker:                  *)
(*   - the in-memory Ledger (settings.py, Settings.initialize_sql),        *)
(*   - playlists.py (load_playlists, load_playlist_tracks, create_playlist,*)
(*     count_tracks_in_playlist, get_next_target_playlist,                 *)
(*     add_playlist_tracks),                                               *)
(*   - main.py: candidate recording, target selection and the drain loop   *)
(*     of main(), get_audio_features_with_retry and                        *)
(*     discover_artists_for_genre,                                         *)
(*   - bpm_providers.py: get_bpm_from_providers and                        *)
(*     normalize_bpm_for_settings.                                         *)
(*                                                                         *)
(* Conventions.                                                            *)
(*   Names are sequences of character codes (ASCII), compared bytewise as  *)
(*   SQLite's BINARY collation does.  A playlist URI is the position of    *)
(*   the playlist in the remote account (spotify), so user_playlist_create *)
(*   returns Len(spotify) + 1.  Tempi are held in half-BPM units because   *)
(*   main() stores tempo / 2 (a true division) for double-time matches.    *)
(*   Remote read calls (user_playlists, playlist_items,                    *)
(*   user_playlist_create) are taken to succeed; playlist_add_items and    *)
(*   audio_features, the two calls the code guards with handlers, may fail.*)
(***************************************************************************)
EXTENDS Integers, Sequences, FiniteSets, TLC

VARIABLES
    settings,               \* configuration read by Settings.__init__
    spotify,                \* remote account: Seq of [name, items]
    t_playlists,            \* Ledger table t_playlists (ROWID = index)
    t_tracks,               \* Ledger table t_tracks (ROWID = index)
    t_tracks_in_playlists,  \* Ledger table t_tracks_in_playlists
    pc,                     \* position of main()
    scan_u,                 \* the track whose features main() looks at next
    match_found,            \* main.py:327
    my_playlist_uri,        \* main.py:432
    my_playlist_name,
    tracks_saved,           \* main.py:439
    rows,                   \* main.py:461
    row_i,                  \* index of the next row of the for loop at 469
    my_tracks,              \* main.py:451, the pending batch
    track_count_overall,    \* main.py:464
    track_count_in_playlist,\* main.py:465
    add_calls,              \* history: calls of add_playlist_tracks
    created,                \* history: URIs returned by create_playlist
    target_since,           \* history: Len(add_calls) when the current target was selected
    gnt,                    \* history: the last call of get_next_target_playlist
    protected,              \* history: tracks of the collections load_playlists read
    rand,                   \* the values random() yields, by ROWID of the new t_tracks row
    matched,                \* history: URIs of the tracks that passed the tempo filter
    run,                    \* which run of main() this is, and what the run before it left
    rw,                     \* state of get_audio_features_with_retry
    disc,                   \* state of discover_artists_for_genre
    tr,                     \* state of the calls into bpm_providers.py
    al                      \* state of the artist loop of main()

\* the variables of main() and the Ledger
coreVars == <<settings, spotify, t_playlists, t_tracks, t_tracks_in_playlists, pc,
          scan_u, match_found, my_playlist_uri, my_playlist_name, tracks_saved,
          rows, row_i, my_tracks, track_count_overall, track_count_in_playlist,
          add_calls, created, target_since, gnt, protected, rand, matched, run>>

vars == <<coreVars, rw, disc, tr, al>>

mainVars == <<coreVars, disc, tr, al>>

(***************************************************************************)
(* Bounds of the model.                                                    *)
(***************************************************************************)
NTracks == 4        \* track URIs of the catalog: 1..NTracks
MaxSave == 2        \* largest max_tracks_to_save tried
MaxRuns == 2        \* runs of main() on one account
MaxPer == 2         \* largest max_tracks_per_playlist tried

Tracks == 1..NTracks

(***************************************************************************)
(* Sequence helpers.                                                       *)
(***************************************************************************)
Range(s) == {s[i] : i \in 1..Len(s)}

RECURSIVE SumLen(_)
SumLen(s) == IF s = <<>> THEN 0 ELSE Len(Head(s)) + SumLen(Tail(s))

RECURSIVE Flatten(_)
Flatten(s) == IF s = <<>> THEN <<>> ELSE Head(s) \o Flatten(Tail(s))

\* bytewise string comparison: a < b
RECURSIVE LexLess(_, _)
LexLess(a, b) ==
    IF b = <<>> THEN FALSE
    ELSE IF a = <<>> THEN TRUE
    ELSE IF Head(a) # Head(b) THEN Head(a) < Head(b)
    ELSE LexLess(Tail(a), Tail(b))

\* str.startswith
StartsWith(s, p) == Len(p) <= Len(s) /\ SubSeq(s, 1, Len(p)) = p

RECURSIVE Digits(_)
Digits(n) == IF n < 10 THEN <<48 + n>> ELSE Digits(n \div 10) \o <<48 + (n % 10)>>

\* "{:02d}".format(n)
Fmt02(n) == IF n < 10 THEN <<48, 48 + n>> ELSE Digits(n)

(***************************************************************************)
(* Configuration (settings.py).                                            *)
(***************************************************************************)
bpm_floor == 2
bpm_ceiling == 3

\* settings.target_playlist (settings.py:30), here the one-letter name "T"
target_playlist == <<84>>

\* settings.playlists_to_exclude, here the single name "F"
playlists_to_exclude == {<<70>>}

\* SQL NULL; ROWIDs and stored tempi are positive
NULL == 0

\* the empty bookmark "" of main.py:432
NoBookmark == 0

(***************************************************************************)
(* The catalog: the name Spotify gives to each track URI.  Tracks 1 and 2  *)
(* are two recordings with the same title.                                 *)
(***************************************************************************)
TrackName(u) == IF u <= 2 THEN 1 ELSE u - 1

(***************************************************************************)
(* The Ledger (Settings.initialize_sql) and INSERT OR IGNORE.              *)
(***************************************************************************)
\* t_playlists: playlist_uri TEXT UNIQUE NOT NULL, playlist_name TEXT UNIQUE NOT NULL
InsertPlaylist(tp, row) ==
    IF \E i \in 1..Len(tp) : tp[i].playlist_uri = row.playlist_uri
                             \/ tp[i].playlist_name = row.playlist_name
    THEN tp
    ELSE Append(tp, row)

\* t_tracks without its UNIQUE constraints
InsertTrack_Unconstrained(tt, row) == Append(tt, row)

\* t_tracks without UNIQUE on track_name
InsertTrack_UriOnly(tt, row) ==
    IF \E i \in 1..Len(tt) : tt[i].track_uri = row.track_uri
    THEN tt
    ELSE Append(tt, row)

\* t_tracks: track_uri TEXT UNIQUE NOT NULL, track_name TEXT UNIQUE NOT NULL,
\* track_bpm INT NULL, track_order INT NOT NULL DEFAULT (random())
InsertTrack(tt, row) ==
    IF \E i \in 1..Len(tt) : tt[i].track_uri = row.track_uri
                             \/ tt[i].track_name = row.track_name
    THEN tt
    ELSE Append(tt, row)

\* SELECT ROWID FROM t_playlists WHERE playlist_uri = ?
PlaylistRowid(tp, uri) ==
    IF \E i \in 1..Len(tp) : tp[i].playlist_uri = uri
    THEN CHOOSE i \in 1..Len(tp) : tp[i].playlist_uri = uri
    ELSE NULL

\* SELECT ROWID FROM t_tracks WHERE track_uri = ?
TrackRowid(tt, uri) ==
    IF \E i \in 1..Len(tt) : tt[i].track_uri = uri
    THEN CHOOSE i \in 1..Len(tt) : tt[i].track_uri = uri
    ELSE NULL

\* t_tracks_in_playlists: playlist_id INTEGER NOT NULL, track_id INTEGER NOT NULL,
\* and no UNIQUE constraint
InsertLink(tl, pid, tid) ==
    IF pid = NULL \/ tid = NULL
    THEN tl
    ELSE Append(tl, [playlist_id |-> pid, track_id |-> tid])

(***************************************************************************)
(* playlists.py                                                            *)
(***************************************************************************)
\* the body of the for loop of load_playlist_tracks for one item (playlists.py:66-77)
LoadItem(tt, tl, tp, playlist_uri, my_track_uri) ==
    LET tt2 == InsertTrack(tt, [track_uri |-> my_track_uri,
                                track_name |-> TrackName(my_track_uri),
                                track_bpm |-> NULL,
                                track_order |-> rand[Len(tt) + 1]])
    IN [t_tracks |-> tt2,
        links |-> InsertLink(tl, PlaylistRowid(tp, playlist_uri),
                                 TrackRowid(tt2, my_track_uri))]

\* the for loop of load_playlist_tracks over the items, in order (the list is
\* split in two to keep the evaluation shallow)
RECURSIVE LoadItems(_, _, _, _, _)
LoadItems(tt, tl, tp, playlist_uri, items) ==
    IF items = <<>> THEN [t_tracks |-> tt, links |-> tl]
    ELSE IF Len(items) = 1 THEN LoadItem(tt, tl, tp, playlist_uri, items[1])
    ELSE LET h == Len(items) \div 2
             first == LoadItems(tt, tl, tp, playlist_uri, SubSeq(items, 1, h))
         IN IF Len(first.t_tracks) >= Len(tt)   \* always true: rows are only added
            THEN LoadItems(first.t_tracks, first.links, tp, playlist_uri,
                           SubSeq(items, h + 1, Len(items)))
            ELSE first

\* load_playlist_tracks(settings, playlist_uri): all pages of the playlist
load_playlist_tracks(sp, tt, tl, tp, playlist_uri) ==
    LoadItems(tt, tl, tp, playlist_uri, sp[playlist_uri].items)

\* load_playlists(settings): the user's playlists from position i on
RECURSIVE LoadPlaylistsFrom(_, _, _, _, _)
LoadPlaylistsFrom(sp, i, tp, tt, tl) ==
    IF i > Len(sp) THEN [t_playlists |-> tp, t_tracks |-> tt, links |-> tl]
    ELSE LET is_marked_for_exclusion == sp[i].name \in playlists_to_exclude
             is_target == StartsWith(sp[i].name, target_playlist)
             tp2 == InsertPlaylist(tp, [playlist_uri |-> i,
                                        playlist_name |-> sp[i].name,
                                        is_marked_for_exclusion |-> is_marked_for_exclusion,
                                        is_target |-> is_target])
             ld == IF is_marked_for_exclusion \/ is_target
                   THEN load_playlist_tracks(sp, tt, tl, tp2, i)
                   ELSE [t_tracks |-> tt, links |-> tl]
         IN LoadPlaylistsFrom(sp, i + 1, tp2, ld.t_tracks, ld.links)

load_playlists(sp, tp, tt, tl) == LoadPlaylistsFrom(sp, 1, tp, tt, tl)

\* count_tracks_in_playlist(settings, playlist_uri)
count_tracks_in_playlist(tp, tl, playlist_uri) ==
    Cardinality({k \in 1..Len(tl) :
                    tl[k].playlist_id = PlaylistRowid(tp, playlist_uri)})

\* the rows "WHERE is_target = true ... ORDER BY playlist_name ASC": the k-th
\* row is the one with k - 1 rows before it (playlist_name is UNIQUE)
SortByName(S) ==
    [k \in 1..Cardinality(S) |->
        CHOOSE r \in S :
            Cardinality({q \in S : LexLess(q.playlist_name, r.playlist_name)}) = k - 1]

TargetRows(tp) == SortByName({tp[i] : i \in {j \in 1..Len(tp) : tp[j].is_target}})

\* the name given to a playlist made at the sentinel row (playlists.py:147-148)
NewPlaylistName_AlwaysSuffixed(number_of_playlists) ==
    target_playlist \o <<32, 112, 97, 114, 116, 32>> \o Fmt02(number_of_playlists)

NewPlaylistName(number_of_playlists) ==
    target_playlist \o (IF number_of_playlists > 0
                        THEN <<32, 112, 97, 114, 116, 32>> \o Fmt02(number_of_playlists)
                        ELSE <<>>)

\* NextTargetWalk without the break on an empty bookmark (playlists.py:163-164)
RECURSIVE NextTargetWalk_NoStop(_, _, _, _, _)
NextTargetWalk_NoStop(cands, i, number_of_playlists, bookmark_found, bookmark_uri) ==
    IF i > Len(cands)
    THEN [is_new |-> TRUE, uri |-> NULL, name |-> NewPlaylistName(number_of_playlists)]
    ELSE LET my_uri == cands[i].playlist_uri
             found == bookmark_found \/ my_uri = bookmark_uri
         IN IF found /\ my_uri # bookmark_uri
            THEN [is_new |-> FALSE, uri |-> my_uri, name |-> cands[i].playlist_name]
            ELSE NextTargetWalk_NoStop(cands, i + 1, number_of_playlists + 1, found,
                                       bookmark_uri)

\* NextTargetWalk breaking at the bookmark itself (playlists.py:166 without
\* "and my_playlist_uri != bookmark_uri")
RECURSIVE NextTargetWalk_AtBookmark(_, _, _, _, _)
NextTargetWalk_AtBookmark(cands, i, number_of_playlists, bookmark_found, bookmark_uri) ==
    IF i > Len(cands)
    THEN [is_new |-> TRUE, uri |-> NULL, name |-> NewPlaylistName(number_of_playlists)]
    ELSE LET my_uri == cands[i].playlist_uri
             found == bookmark_found \/ my_uri = bookmark_uri
         IN IF bookmark_uri = NoBookmark \/ found
            THEN [is_new |-> FALSE, uri |-> my_uri, name |-> cands[i].playlist_name]
            ELSE NextTargetWalk_AtBookmark(cands, i + 1, number_of_playlists + 1, found,
                                           bookmark_uri)

\* the for loop of get_next_target_playlist from candidate row i on; the
\* sentinel row is the one after the last candidate
RECURSIVE NextTargetWalk(_, _, _, _, _)
NextTargetWalk(cands, i, number_of_playlists, bookmark_found, bookmark_uri) ==
    IF i > Len(cands)
    THEN [is_new |-> TRUE, uri |-> NULL, name |-> NewPlaylistName(number_of_playlists)]
    ELSE LET my_uri == cands[i].playlist_uri
             found == bookmark_found \/ my_uri = bookmark_uri
         IN IF bookmark_uri = NoBookmark \/ (found /\ my_uri # bookmark_uri)
            THEN [is_new |-> FALSE, uri |-> my_uri, name |-> cands[i].playlist_name]
            ELSE NextTargetWalk(cands, i + 1, number_of_playlists + 1, found, bookmark_uri)

\* create_playlist(settings, playlist_name, playlist_description)
create_playlist(sp, tp, playlist_name) ==
    [spotify |-> Append(sp, [name |-> playlist_name, items |-> <<>>]),
     t_playlists |-> InsertPlaylist(tp, [playlist_uri |-> Len(sp) + 1,
                                         playlist_name |-> playlist_name,
                                         is_marked_for_exclusion |-> FALSE,
                                         is_target |-> TRUE]),
     uri |-> Len(sp) + 1]

\* get_next_target_playlist(settings, target_playlist, bookmark_uri)
get_next_target_playlist(sp, tp, bookmark_uri) ==
    LET w == NextTargetWalk(TargetRows(tp), 1, 0, FALSE, bookmark_uri)
    IN IF w.is_new
       THEN LET c == create_playlist(sp, tp, w.name)
            IN [uri |-> c.uri, name |-> w.name, is_new |-> TRUE,
                spotify |-> c.spotify, t_playlists |-> c.t_playlists]
       ELSE [uri |-> w.uri, name |-> w.name, is_new |-> FALSE,
             spotify |-> sp, t_playlists |-> tp]

\* add_playlist_tracks(settings, playlist_uri, playlist_name, tracks);
\* ok = playlist_add_items did not raise
add_playlist_tracks(sp, tt, tl, tp, playlist_uri, tracks, ok) ==
    LET sp2 == IF ok
               THEN [sp EXCEPT ![playlist_uri].items = @ \o tracks]
               ELSE sp
        ld == load_playlist_tracks(sp2, tt, tl, tp, playlist_uri)
    IN [spotify |-> sp2, t_tracks |-> ld.t_tracks, links |-> ld.links]

(***************************************************************************)
(* main.py: main()                                                         *)
(***************************************************************************)
\* my_api_limit = 95 (main.py:450)
my_api_limit == 95

\* Python's round() of a tempo given in half-BPM units: halves go to the even integer
PyRound(t2) ==
    IF t2 % 2 = 0 THEN t2 \div 2
    ELSE IF (t2 \div 2) % 2 = 0 THEN t2 \div 2 ELSE (t2 \div 2) + 1

\* audio features the scan may meet: NoFeature (track_feature is None, main.py:404),
\* or a tempo in half-BPM units: 3.0, 5.0 and 8.0 BPM
NoFeature == -1
FeaturePool == {NoFeature, 6, 10, 16}

\* the tempo filter of main.py:407-408 on the rounded tempo (BPM)
TempoMatches(tempo) ==
    \/ (bpm_floor <= tempo /\ tempo <= bpm_ceiling)
    \/ (settings.allow_doubled_bpm /\ bpm_floor * 2 <= tempo /\ tempo <= bpm_ceiling * 2)

\* the value bound to track_bpm at main.py:414-416, in half-BPM units
StoredBpm(tempo) ==
    IF bpm_floor <= tempo /\ tempo <= bpm_ceiling THEN 2 * tempo ELSE tempo

\* the INSERT of main.py:411-416
RecordCandidate(tt, uri, name, tempo) ==
    IF \E i \in 1..Len(tt) : tt[i].track_name = name
    THEN tt
    ELSE InsertTrack(tt, [track_uri |-> uri, track_name |-> name,
                          track_bpm |-> StoredBpm(tempo),
                          track_order |-> rand[Len(tt) + 1]])

\* a second run meets the catalog results of the first: the audio feature of
\* track u passes the tempo filter iff it did, and yields the same track_bpm
SameCatalogResult(u, tempo) ==
    run.n = 1 \/
       /\ TempoMatches(tempo) <=> u \in run.matched
       /\ \A i \in 1..Len(run.candidates) :
             run.candidates[i].track_uri = u =>
                run.candidates[i].track_bpm = StoredBpm(tempo)

\* one pass of the loop over track features (main.py:400-418); the catalog
\* lists the tracks by increasing URI
ScanTrack ==
    /\ pc = "scan"
    /\ scan_u <= NTracks
    /\ scan_u' = scan_u + 1
    /\ \E f \in FeaturePool :
          LET u == scan_u
              tempo == IF f = NoFeature THEN 0 ELSE PyRound(f)
           IN /\ SameCatalogResult(u, tempo)
              /\ IF TempoMatches(tempo)
                 THEN IF f = NoFeature
                      THEN \* track_feature['uri'] on None raises TypeError
                           /\ pc' = "crashed"
                           /\ UNCHANGED <<t_tracks, match_found, matched>>
                      ELSE /\ t_tracks' = RecordCandidate(t_tracks, u, TrackName(u), tempo)
                           /\ match_found' = TRUE
                           /\ matched' = matched \cup {u}
                           /\ pc' = pc
                 ELSE UNCHANGED <<t_tracks, match_found, matched, pc>>
    /\ UNCHANGED <<settings, spotify, t_playlists, t_tracks_in_playlists,
                   my_playlist_uri, my_playlist_name, tracks_saved, rows, row_i,
                   my_tracks, track_count_overall, track_count_in_playlist,
                   add_calls, created, target_since, gnt, protected, rand, run, rw, disc, tr, al>>

\* the end of the artist loop: "if match_found" (main.py:429), and the
\* else branch at 527
ScanDone ==
    /\ pc = "scan"
    /\ scan_u > NTracks
    /\ pc' = IF match_found THEN "load" ELSE "done"
    /\ UNCHANGED <<settings, spotify, t_playlists, t_tracks, t_tracks_in_playlists,
                   scan_u, match_found, my_playlist_uri, my_playlist_name,
                   tracks_saved, rows, row_i, my_tracks, track_count_overall,
                   track_count_in_playlist, add_calls, created, target_since, gnt,
                   protected, rand, matched,
                   run, rw, disc, tr, al>>

\* tracks of the exclusion-source and target collections of the account
ProtectedTracks(sp) ==
    UNION {Range(sp[i].items) :
             i \in {j \in 1..Len(sp) : \/ sp[j].name \in playlists_to_exclude
                                       \/ StartsWith(sp[j].name, target_playlist)}}

\* load_playlists(settings=settings); my_playlist_uri = "" (main.py:431-432)
LoadPlaylists ==
    /\ pc = "load"
    /\ LET ld == load_playlists(spotify, t_playlists, t_tracks, t_tracks_in_playlists)
       IN /\ t_playlists' = ld.t_playlists
          /\ t_tracks' = ld.t_tracks
          /\ t_tracks_in_playlists' = ld.links
    /\ protected' = ProtectedTracks(spotify)
    /\ my_playlist_uri' = NoBookmark
    /\ pc' = "select"
    /\ UNCHANGED <<settings, spotify, scan_u, match_found, my_playlist_name,
                   tracks_saved, rows, row_i, my_tracks, track_count_overall,
                   track_count_in_playlist, add_calls, created, target_since, gnt,
                   rand, matched,
                   run, rw, disc, tr, al>>

\* the rows of the query at main.py:452-461: URIs of the tracks without a link,
\* ORDER BY track_bpm ASC, track_order ASC (NULL sorts first)
TrackBefore_OrderOnly(q, r) == q.track_order < r.track_order

TrackBefore(q, r) ==
    \/ q.track_bpm < r.track_bpm
    \/ (q.track_bpm = r.track_bpm /\ q.track_order < r.track_order)

SortTracks(S) ==
    [k \in 1..Cardinality(S) |->
        (CHOOSE r \in S : Cardinality({q \in S : TrackBefore(q, r)}) = k - 1).track_uri]

UnassignedTracks(tt, tl) ==
    SortTracks({tt[i] : i \in {j \in 1..Len(tt) :
                                 ~ \E k \in 1..Len(tl) : tl[k].track_id = j}})

\* what the history variable gnt keeps of a call of get_next_target_playlist,
\* and the URIs all the calls of the run returned
GntRecord(bookmark_uri, tp, r) ==
    [called |-> TRUE, bookmark |-> bookmark_uri, before |-> tp,
     uri |-> r.uri, name |-> r.name, is_new |-> r.is_new,
     returned |-> Append(gnt.returned, r.uri)]

\* one pass of the "while True" at main.py:434-447; on break, main.py:450-467
SelectFirstTarget ==
    /\ pc = "select"
    /\ LET r == get_next_target_playlist(spotify, t_playlists, my_playlist_uri)
           cnt == count_tracks_in_playlist(r.t_playlists, t_tracks_in_playlists, r.uri)
           found == IF settings.max_tracks_per_playlist # 0
                    THEN cnt < settings.max_tracks_per_playlist
                    ELSE TRUE
       IN /\ spotify' = r.spotify
          /\ t_playlists' = r.t_playlists
          /\ my_playlist_uri' = r.uri
          /\ my_playlist_name' = r.name
          /\ gnt' = GntRecord(my_playlist_uri, t_playlists, r)
          /\ created' = IF r.is_new THEN created \cup {r.uri} ELSE created
          /\ tracks_saved' = IF settings.max_tracks_per_playlist # 0
                             THEN cnt ELSE tracks_saved
          /\ IF found
             THEN /\ rows' = UnassignedTracks(t_tracks, t_tracks_in_playlists)
                  /\ pc' = "drain"
             ELSE /\ rows' = rows
                  /\ pc' = "select"
    /\ target_since' = Len(add_calls)
    /\ UNCHANGED <<settings, t_tracks, t_tracks_in_playlists, scan_u, match_found,
                   row_i, my_tracks, track_count_overall, track_count_in_playlist,
                   add_calls, protected, rand, matched,
                   run, rw, disc, tr, al>>

\* decision 1 (main.py:475): the global maximum has been attained
GlobalCapReached_Mut(overall) == overall > settings.max_tracks_to_save

GlobalCapReached(overall) == overall = settings.max_tracks_to_save

\* decision 2 (main.py:483-484): max_tracks_per_playlist has been reached
PlaylistCapReached_Mut(in_playlist, saved) ==
    /\ settings.max_tracks_per_playlist # 0
    /\ in_playlist + saved > settings.max_tracks_per_playlist

PlaylistCapReached(in_playlist, saved) ==
    /\ settings.max_tracks_per_playlist # 0
    /\ in_playlist + saved >= settings.max_tracks_per_playlist

\* decision 2 is in the else branch of decision 1 (main.py:481-486)
DecisionNextPlaylist_NoPriority(decision_stop, cap_reached) == cap_reached

DecisionNextPlaylist(decision_stop, cap_reached) == ~ decision_stop /\ cap_reached

\* decision_save is set together with decision_stop and with
\* decision_next_playlist (main.py:476, 485, 495)
DecisionSave_NotOnNext(decision_stop, decision_next_playlist, api_limit_reached) ==
    decision_stop \/ api_limit_reached

DecisionSave(decision_stop, decision_next_playlist, api_limit_reached) ==
    decision_stop \/ decision_next_playlist \/ api_limit_reached

\* decision 3 (main.py:494): the API call payload has been maxed out
ApiLimitReached_Mut(batch) == Len(batch) = my_api_limit + 2

ApiLimitReached(batch) == Len(batch) = my_api_limit

\* "if my_tracks:" (main.py:523): there is a remainder to flush
RemainderPending_Mut(batch) == FALSE

RemainderPending(batch) == batch # <<>>

\* one pass of the for loop at main.py:469-504 and its exits at 506 and 520;
\* the flush is add_playlist_tracks, whose remote write may fail
DrainStep ==
    /\ pc = "drain"
    /\ row_i <= Len(rows)
    /\ LET batch == Append(my_tracks, rows[row_i])
           overall == track_count_overall + 1
           in_playlist == track_count_in_playlist + 1
           decision_stop == GlobalCapReached(overall)
           decision_next_playlist ==
               DecisionNextPlaylist(decision_stop,
                                    PlaylistCapReached(in_playlist, tracks_saved))
           decision_save ==
               DecisionSave(decision_stop, decision_next_playlist, ApiLimitReached(batch))
       IN /\ track_count_overall' = overall
          /\ track_count_in_playlist' = in_playlist
          /\ row_i' = row_i + 1
          /\ IF decision_save
             THEN \E ok \in BOOLEAN :
                    LET a == add_playlist_tracks(spotify, t_tracks, t_tracks_in_playlists,
                                                 t_playlists, my_playlist_uri, batch, ok)
                    IN /\ spotify' = a.spotify
                       /\ t_tracks' = a.t_tracks
                       /\ t_tracks_in_playlists' = a.links
                       /\ add_calls' = Append(add_calls,
                                              [uri |-> my_playlist_uri, tracks |-> batch,
                                               ok |-> ok, prior |-> tracks_saved])
                       /\ my_tracks' = <<>>
             ELSE /\ my_tracks' = batch
                  /\ UNCHANGED <<spotify, t_tracks, t_tracks_in_playlists, add_calls>>
          /\ pc' = IF decision_next_playlist THEN "next"
                   ELSE IF decision_stop THEN "done"
                   ELSE "drain"
    /\ UNCHANGED <<settings, t_playlists, scan_u, match_found, my_playlist_uri,
                   my_playlist_name, tracks_saved, rows, created, target_since, gnt,
                   protected, rand, matched,
                   run, rw, disc, tr, al>>

\* one pass of the while loop at main.py:509-516 (line 508 only forces the first
\* pass: its value is overwritten at 516 before it is read again); on exit,
\* main.py:517-518
AdvanceTarget ==
    /\ pc = "next"
    /\ LET r == get_next_target_playlist(spotify, t_playlists, my_playlist_uri)
           cnt == count_tracks_in_playlist(r.t_playlists, t_tracks_in_playlists, r.uri)
       IN /\ spotify' = r.spotify
          /\ t_playlists' = r.t_playlists
          /\ my_playlist_uri' = r.uri
          /\ my_playlist_name' = r.name
          /\ gnt' = GntRecord(my_playlist_uri, t_playlists, r)
          /\ created' = IF r.is_new THEN created \cup {r.uri} ELSE created
          /\ tracks_saved' = cnt
          /\ IF cnt >= settings.max_tracks_per_playlist
             THEN /\ pc' = "next"
                  /\ UNCHANGED track_count_in_playlist
             ELSE /\ pc' = "drain"
                  /\ track_count_in_playlist' = 0
    /\ target_since' = Len(add_calls)
    /\ UNCHANGED <<settings, t_tracks, t_tracks_in_playlists, scan_u, match_found,
                   rows, row_i, my_tracks, track_count_overall, add_calls, protected,
                   rand, matched,
                   run, rw, disc, tr, al>>

\* the else branch of the for loop (main.py:522-525): the rows are exhausted
DrainEnd ==
    /\ pc = "drain"
    /\ row_i > Len(rows)
    /\ IF RemainderPending(my_tracks)
       THEN \E ok \in BOOLEAN :
              LET a == add_playlist_tracks(spotify, t_tracks, t_tracks_in_playlists,
                                           t_playlists, my_playlist_uri, my_tracks, ok)
              IN /\ spotify' = a.spotify
                 /\ t_tracks' = a.t_tracks
                 /\ t_tracks_in_playlists' = a.links
                 /\ add_calls' = Append(add_calls,
                                        [uri |-> my_playlist_uri, tracks |-> my_tracks,
                                         ok |-> ok, prior |-> tracks_saved])
       ELSE UNCHANGED <<spotify, t_tracks, t_tracks_in_playlists, add_calls>>
    /\ pc' = "done"
    /\ UNCHANGED <<settings, t_playlists, scan_u, match_found, my_playlist_uri,
                   my_playlist_name, tracks_saved, rows, row_i, my_tracks,
                   track_count_overall, track_count_in_playlist, created,
                   target_since, gnt, protected, rand, matched,
                   run, rw, disc, tr, al>>

(***************************************************************************)
(* main.py: get_audio_features_with_retry                                  *)
(***************************************************************************)
\* The handler names settings.spotify.exceptions.SpotifyException; it is taken to
\* be spotipy's SpotifyException, so that a failed call reaches the handlers.

\* the defaults max_retries=5, initial_delay=1.0 (main.py:536)
max_retries_default == 5
initial_delay_default == 1

\* Retry-After header values a 429 may carry; NoHeader = no such header
NoHeader == -1
RetryAfterPool == {NoHeader, 0, 7}

\* while retries < max_retries (main.py:540)
RetryLoopGuard_Mut(retries, max_retries) == retries <= max_retries

RetryLoopGuard(retries, max_retries) == retries < max_retries

\* delay *= 2 (main.py:560)
NextDelay_Mut(delay) == delay + 1

NextDelay(delay) == delay * 2

\* the margin of 5 left out of the sleep after a 429
RateLimitSleep_NoMargin(header, delay) == IF header = NoHeader THEN delay ELSE header

\* int(ex.headers.get("Retry-After", delay)) + 5 (main.py:549)
RateLimitSleep(header, delay) == (IF header = NoHeader THEN delay ELSE header) + 5

RetryIdle ==
    [rpc |-> "idle", max_retries |-> 0, initial_delay |-> 0, retries |-> 0,
     delay |-> 0, sleeps |-> <<>>, outcomes |-> <<>>, headers |-> <<>>]

\* audio_features returns (main.py:544-545)
RetryCallOk ==
    /\ rw.rpc = "try"
    /\ RetryLoopGuard(rw.retries, rw.max_retries)
    /\ rw' = [rw EXCEPT !.rpc = "returned", !.outcomes = Append(@, "ok")]
    /\ UNCHANGED mainVars

\* audio_features raises SpotifyException with http_status 429 (main.py:547-551, 559-560)
RetryCallRateLimited ==
    /\ rw.rpc = "try"
    /\ RetryLoopGuard(rw.retries, rw.max_retries)
    /\ \E h \in RetryAfterPool :
          rw' = [rw EXCEPT !.sleeps = Append(@, RateLimitSleep(h, rw.delay)),
                           !.outcomes = Append(@, "rate_limited"),
                           !.headers = Append(@, h),
                           !.retries = @ + 1,
                           !.delay = NextDelay(@)]
    /\ UNCHANGED mainVars

\* audio_features raises anything else (main.py:552-560)
RetryCallFails ==
    /\ rw.rpc = "try"
    /\ RetryLoopGuard(rw.retries, rw.max_retries)
    /\ rw' = [rw EXCEPT !.sleeps = Append(@, rw.delay),
                        !.outcomes = Append(@, "failed"),
                        !.headers = Append(@, NoHeader),
                        !.retries = @ + 1,
                        !.delay = NextDelay(@)]
    /\ UNCHANGED mainVars

\* the loop ends: raise Exception(...) (main.py:562)
RetryRaise ==
    /\ rw.rpc = "try"
    /\ ~ RetryLoopGuard(rw.retries, rw.max_retries)
    /\ rw' = [rw EXCEPT !.rpc = "raised"]
    /\ UNCHANGED mainVars

(***************************************************************************)
(* discover_artists_for_genre (main.py:13-157).                            *)
(***************************************************************************)
\* Artists are numbered; an artist's id, URI and name go together.  A response
\* of the catalog is the set of artists it lists, or Failure when the call raises.
NArtists == 2           \* artists of the catalog: 1..NArtists
MaxTrackPages == 2      \* max_track_pages passed by the caller
MaxPlaylistPages == 1   \* largest playlist_pages passed by the caller

Artists == 1..NArtists
\* the display names a response may give to the artists it lists; NoName is
\* the name of an artist that is not in the map
NamePool == {1, 2}
NoName == 0
Failure == [ok |-> FALSE, artists |-> {}, name |-> NoName]
EmptyResponse == [ok |-> TRUE, artists |-> {}, name |-> NoName]
Responses(name_pool) ==
    {EmptyResponse}
       \cup {[ok |-> TRUE, artists |-> S, name |-> n] :
                 S \in {Artists} \cup {{a} : a \in Artists}, n \in name_pool}

\* str.strip() on a name of character codes (space, tab, newline are whitespace)
IsSpace(c) == c \in {32, 9, 10}

RECURSIVE LStrip(_)
LStrip(str) == IF str # <<>> /\ IsSpace(Head(str)) THEN LStrip(Tail(str)) ELSE str

RECURSIVE RStrip(_)
RStrip(str) ==
    IF str # <<>> /\ IsSpace(str[Len(str)]) THEN RStrip(SubSeq(str, 1, Len(str) - 1)) ELSE str

Strip(str) == RStrip(LStrip(str))

\* the query built at main.py:32-39: a part per filter that is not blank
QueryParts_Unstripped(genre_searchstring, artist_searchstring) ==
    (IF genre_searchstring # <<>> THEN <<"genre">> ELSE <<>>)
       \o (IF artist_searchstring # <<>> THEN <<"artist">> ELSE <<>>)

QueryParts(genre_searchstring, artist_searchstring) ==
    (IF Strip(genre_searchstring) # <<>> THEN <<"genre">> ELSE <<>>)
       \o (IF Strip(artist_searchstring) # <<>> THEN <<"artist">> ELSE <<>>)

\* candidate_markets (main.py:49) has six entries
number_of_markets == 6

\* the item pages of a harvested playlist: offsets 0, 100, 200 (main.py:117, 135)
last_playlist_offset == 200
playlist_page_size == 100

\* seed_artist_ids[:500] (main.py:147)
related_seed_cap == 500

\* discovered_artists_by_id[artist_id] = ...: a dict keeps the insertion order of
\* its keys; the artists of one response arrive by increasing number
RECURSIVE MergeArtists(_, _)
MergeArtists(discovered, artists) ==
    IF artists = {} THEN discovered
    ELSE LET a == CHOOSE x \in artists : \A y \in artists : x <= y
         IN MergeArtists(IF \E i \in 1..Len(discovered) : discovered[i] = a
                         THEN discovered ELSE Append(discovered, a),
                         artists \ {a})

DiscIdle ==
    [dpc |-> "idle", genre_searchstring |-> <<>>, artist_searchstring |-> <<>>,
     playlist_pages |-> 0, expand_related |-> FALSE, max_track_pages |-> 0,
     market_index |-> 0, page_index |-> 0, playlists_left |-> 0,
     playlist_offset |-> 0, seeds |-> <<>>, seed_index |-> 0,
     discovered |-> <<>>, result |-> {},
     calls |-> [artist |-> 0, track |-> 0, playlist |-> 0, items |-> 0, related |-> 0],
     a_hit |-> FALSE, yielded |-> {}, last |-> [kind |-> "none", ok |-> TRUE],
     name_pool |-> {}, names |-> [a \in Artists |-> NoName],
     listed |-> EmptyResponse]

\* number of calls made on the catalog client so far
TotalCalls(d) ==
    d.calls.artist + d.calls.track + d.calls.playlist + d.calls.items + d.calls.related

\* return {Artist(...) for val in discovered_artists_by_id.values()} (main.py:157)
DiscReturn(d) == [d EXCEPT !.dpc = "returned", !.result = Range(d.discovered)]

\* seed_artist_ids[:500] (main.py:145-147): the keys of the map, in the order
\* of their insertion
SeedArtistIds(discovered) ==
    SubSeq(discovered, 1,
           IF Len(discovered) < related_seed_cap
           THEN Len(discovered) ELSE related_seed_cap)

\* stage D or the return (main.py:144-157)
AfterC_Unconditional(d) ==
    IF d.discovered # <<>>
    THEN [d EXCEPT !.dpc = "D", !.seeds = d.discovered, !.seed_index = 1]
    ELSE DiscReturn(d)

AfterC(d) ==
    IF d.expand_related /\ d.discovered # <<>>
    THEN [d EXCEPT !.dpc = "D", !.seeds = SeedArtistIds(d.discovered),
                   !.seed_index = 1]
    ELSE DiscReturn(d)

\* stage C from its first page, if range(playlist_pages) is not empty (main.py:100-102)
AfterB(d) ==
    IF d.playlist_pages > 0
    THEN [d EXCEPT !.dpc = "C", !.page_index = 0]
    ELSE AfterC(d)

\* stage B only if nothing was discovered (main.py:66-68)
TrackSearchNeeded_Always(d) == d.max_track_pages > 0

TrackSearchNeeded(d) == d.discovered = <<>> /\ d.max_track_pages > 0

AfterA(d) ==
    IF TrackSearchNeeded(d)
    THEN [d EXCEPT !.dpc = "B", !.page_index = 0]
    ELSE AfterB(d)

\* discovered_artists_by_id[artist_id] = (name, uri): the value stored under
\* a key is the one written last
StoreNames_FirstWins(names, artists, name) ==
    [a \in Artists |-> IF a \in artists /\ names[a] = NoName THEN name ELSE names[a]]

StoreNames(names, artists, name) ==
    [a \in Artists |-> IF a \in artists THEN name ELSE names[a]]

\* {Artist(name=val[0], uri=val[1]) for val in ...values()} (main.py:157)
ArtistSet(d) == {[name |-> d.names[a], uri |-> a] : a \in Range(d.discovered)}

\* the record of a call: its kind, its outcome, the artists it listed
Called(d, kind, resp) ==
    [d EXCEPT !.calls[kind] = @ + 1,
              !.last = [kind |-> kind, ok |-> resp.ok],
              !.listed = resp,
              !.yielded = @ \cup resp.artists,
              !.discovered = MergeArtists(@, resp.artists),
              !.names = StoreNames(@, resp.artists, resp.name)]

\* main.py:32-46
DiscoverStart ==
    /\ disc.dpc = "start"
    /\ disc' = IF QueryParts(disc.genre_searchstring, disc.artist_searchstring) = <<>>
               THEN [disc EXCEPT !.dpc = "returned", !.result = {}]
               ELSE [disc EXCEPT !.dpc = "A", !.market_index = 1]
    /\ UNCHANGED <<coreVars, rw, tr, al>>

\* what follows a market probe that failed: the next market, if any
AfterMarketFailure_Abort(d) == AfterA(d)

AfterMarketFailure(d) ==
    IF d.market_index < number_of_markets
    THEN [d EXCEPT !.market_index = @ + 1]
    ELSE AfterA(d)

\* what follows a market probe that listed artists: break (main.py:57-59)
AfterMarketHit_Continues(d) ==
    IF d.market_index < number_of_markets
    THEN [d EXCEPT !.a_hit = TRUE, !.market_index = @ + 1]
    ELSE AfterA([d EXCEPT !.a_hit = TRUE])

AfterMarketHit(d) == AfterA([d EXCEPT !.a_hit = TRUE])

\* one pass of the loop over candidate_markets (main.py:50-63)
ArtistSearch ==
    /\ disc.dpc = "A"
    /\ \E resp \in Responses(disc.name_pool) \cup {Failure} :
          LET d == Called(disc, "artist", resp)
          IN disc' = IF resp = Failure
                     THEN AfterMarketFailure(d)
                     ELSE IF resp.artists # {}
                          THEN AfterMarketHit(d)
                          ELSE IF d.market_index < number_of_markets
                               THEN [d EXCEPT !.market_index = @ + 1]
                               ELSE AfterA(d)
    /\ UNCHANGED <<coreVars, rw, tr, al>>

\* one pass of the loop over track pages (main.py:68-90); the handler at 96-97
\* is outside the loop
TrackSearchPage ==
    /\ disc.dpc = "B"
    /\ \E resp \in Responses(disc.name_pool) \cup {Failure} :
          LET d == Called(disc, "track", resp)
          IN disc' = IF resp = Failure \/ resp.artists = {}
                     THEN AfterB(d)
                     ELSE IF d.page_index + 1 < d.max_track_pages
                          THEN [d EXCEPT !.page_index = @ + 1]
                          ELSE AfterB(d)
    /\ UNCHANGED <<coreVars, rw, tr, al>>

\* one playlist search (main.py:102-108); n playlists with an id on the page;
\* the handler at 140-141 is outside both loops
PlaylistSearchPage ==
    /\ disc.dpc = "C"
    /\ \E n \in 0..2, ok \in BOOLEAN :
          LET d == Called(disc, "playlist",
                          IF ok THEN EmptyResponse ELSE Failure)
          IN disc' = IF ~ ok \/ n = 0
                     THEN AfterC(d)
                     ELSE [d EXCEPT !.dpc = "Citems", !.playlists_left = n,
                                    !.playlist_offset = 0]
    /\ UNCHANGED <<coreVars, rw, tr, al>>

\* the next playlist of the page, the next page, or the end of stage C
NextPlaylist(d) ==
    IF d.playlists_left > 1
    THEN [d EXCEPT !.playlists_left = @ - 1, !.playlist_offset = 0]
    ELSE IF d.page_index + 1 < d.playlist_pages
         THEN [d EXCEPT !.dpc = "C", !.page_index = @ + 1, !.playlists_left = 0,
                        !.playlist_offset = 0]
         ELSE AfterC([d EXCEPT !.playlists_left = 0, !.playlist_offset = 0])

\* one item page of a harvested playlist (main.py:117-135); an empty response
\* is an empty page
PlaylistItemsPage ==
    /\ disc.dpc = "Citems"
    /\ \E resp \in Responses(disc.name_pool) \cup {Failure}, has_next \in BOOLEAN :
          LET d == Called(disc, "items", resp)
          IN disc' = IF resp = Failure
                     THEN AfterC([d EXCEPT !.playlists_left = 0, !.playlist_offset = 0])
                     ELSE IF resp.artists = {} \/ ~ has_next
                               \/ d.playlist_offset + playlist_page_size > last_playlist_offset
                          THEN NextPlaylist(d)
                          ELSE [d EXCEPT !.playlist_offset = @ + playlist_page_size]
    /\ UNCHANGED <<coreVars, rw, tr, al>>

\* one pass of the loop over the seeds (main.py:147-157)
RelatedArtists ==
    /\ disc.dpc = "D"
    /\ \E resp \in Responses(disc.name_pool) \cup {Failure} :
          LET d == Called(disc, "related", resp)
          IN disc' = IF d.seed_index < Len(d.seeds)
                     THEN [d EXCEPT !.seed_index = @ + 1]
                     ELSE DiscReturn(d)
    /\ UNCHANGED <<coreVars, rw, tr, al>>

(***************************************************************************)
(* bpm_providers.py: get_bpm_from_providers and normalize_bpm_for_settings.*)
(***************************************************************************)
\* Here a tempo is held in quarter-BPM units, so that tempo / 2.0 and
\* tempo * 2.0 stay integers; NoTempo is None.
MaxProviders == 2       \* longest provider chain tried
MaxBpm == 2             \* largest bpm_ceiling tried, in BPM

NoTempo == -1

\* BpmProvider.get_bpm raises NotImplementedError (bpm_providers.py:30-32);
\* LocalFileProvider inherits it, defining get_bpm_for_file only
RaisesNotImplemented == -2

\* what a provider's get_bpm may hold in BpmResult.bpm: None, 0.0, 1.5, 2.25;
\* or the provider is one whose get_bpm raises
ProviderPool == {NoTempo, 0, 6, 9, RaisesNotImplemented}

\* "if res and res.bpm" (bpm_providers.py:133): None and 0.0 are both falsy
HasTempo_NotNone(res_bpm) == res_bpm # NoTempo

HasTempo(res_bpm) == res_bpm # NoTempo /\ res_bpm # 0

\* round(n / d) for n >= 0, d > 0: Python rounds a tie to the even neighbour
PyRoundDiv(n, d) ==
    LET q == n \div d
        r == n % d
    IN IF 2 * r < d THEN q
       ELSE IF 2 * r > d THEN q + 1
       ELSE IF q % 2 = 0 THEN q ELSE q + 1

\* int(getattr(settings, 'bpm_floor', 0) or 0) and
\* int(getattr(settings, 'bpm_ceiling', 1000) or 1000) (bpm_providers.py:147-148)
default_floor == 0
default_ceiling == 1000
EffectiveFloor(floor) == IF floor = 0 THEN default_floor ELSE floor
EffectiveCeiling(ceiling) == IF ceiling = 0 THEN default_ceiling ELSE ceiling

\* normalize_bpm_for_settings (bpm_providers.py:138-158); bpm in quarter BPM,
\* floor and ceiling in BPM; the result is [bpm, status] with bpm in BPM
normalize_bpm_for_settings(bpm, bpm_floor_, bpm_ceiling_, allow_doubled_bpm) ==
    LET floor == EffectiveFloor(bpm_floor_)
        ceiling == EffectiveCeiling(bpm_ceiling_)
    IN IF bpm = NoTempo THEN [bpm |-> NoTempo, status |-> "missing"]
       ELSE IF 4 * floor <= bpm /\ bpm <= 4 * ceiling
       THEN [bpm |-> PyRoundDiv(bpm, 4), status |-> "exact"]
       ELSE IF allow_doubled_bpm /\ 8 * floor <= bpm /\ bpm <= 8 * ceiling
       THEN [bpm |-> PyRoundDiv(bpm, 8), status |-> "halved"]
       ELSE IF allow_doubled_bpm /\ 2 * floor <= bpm /\ bpm <= 2 * ceiling
       THEN [bpm |-> PyRoundDiv(bpm, 2), status |-> "doubled"]
       ELSE [bpm |-> NoTempo, status |-> "out_of_range"]

TrIdle ==
    [rpc |-> "idle", providers |-> <<>>, next |-> 0, called |-> <<>>,
     resolved |-> NoTempo,
     npc |-> "idle", bpm |-> NoTempo, bpm_floor |-> 0, bpm_ceiling |-> 0,
     allow_doubled_bpm |-> FALSE, normalized |-> [bpm |-> NoTempo, status |-> "none"]]

\* one pass of "for p in providers" (bpm_providers.py:131-134); nothing in
\* get_bpm_from_providers handles an exception of p.get_bpm
ProviderCall ==
    /\ tr.rpc = "chain"
    /\ tr.next <= Len(tr.providers)
    /\ LET res_bpm == tr.providers[tr.next]
       IN tr' = IF res_bpm = RaisesNotImplemented
                THEN [tr EXCEPT !.called = Append(@, tr.next), !.rpc = "raised"]
                ELSE IF HasTempo(res_bpm)
                THEN [tr EXCEPT !.called = Append(@, tr.next), !.rpc = "resolved",
                                !.resolved = res_bpm]
                ELSE [tr EXCEPT !.called = Append(@, tr.next), !.next = @ + 1]
    /\ UNCHANGED <<coreVars, rw, disc, al>>

\* the loop ends: return None (bpm_providers.py:135)
ChainExhausted ==
    /\ tr.rpc = "chain"
    /\ tr.next > Len(tr.providers)
    /\ tr' = [tr EXCEPT !.rpc = "resolved", !.resolved = NoTempo]
    /\ UNCHANGED <<coreVars, rw, disc, al>>

\* a call of normalize_bpm_for_settings
Normalize ==
    /\ tr.npc = "todo"
    /\ tr' = [tr EXCEPT !.npc = "done",
                        !.normalized = normalize_bpm_for_settings(
                            tr.bpm, tr.bpm_floor, tr.bpm_ceiling, tr.allow_doubled_bpm)]
    /\ UNCHANGED <<coreVars, rw, disc, al>>

(***************************************************************************)
(* The artist consumption loop of main(), main.py:343-418.                 *)
(***************************************************************************)
MaxAlbums == 2          \* most albums artist_albums returns for one artist

\* answers the operator may type at the prompt of main.py:352 ("" is Enter,
\* "x" is an answer the loop at 351 rejects)
InputPool == {"", "Y", "y", "N", "n", "C", "c", "A", "a", "x"}

\* main.py:351: the answers that end the prompt loop
ValidAnswers == {"", "Y", "N", "C", "A", "y", "n", "c", "a"}

\* main.py:352: input(...) or "Y"
OrYes(answer) == IF answer = "" THEN "Y" ELSE answer

\* main.py:349: the decision that is kept from one artist to the next
KeepsDecision_Mut(process) == process \in {"A", "a", "N", "n"}

KeepsDecision(process) == process \in {"A", "a"}

\* main.py:357
IsCancel(process) == process \in {"C", "c"}

\* main.py:359
IsExpand(process) == process \in {"A", "a", "Y", "y"}

\* api_result of main.py:381 and 394
NoResult == "None"

ArtistLoopIdle ==
    [apc |-> "idle", interactive_mode |-> FALSE, n_artists |-> 0, artist |-> 0,
     process |-> "?", albums_left |-> 0, api_result |-> NoResult,
     asked |-> {}, decisions |-> <<>>, called |-> {}, exhausted |-> 0,
     contributed |-> 0]

\* main.py:366: the next album of the artist, or the next artist
AfterAlbum(a, left) ==
    [a EXCEPT !.albums_left = left,
              !.apc = IF left > 0 THEN "album_fetch" ELSE "artist"]

\* main.py:344-356: the for loop takes the next artist, or ends (419)
ArtistTop ==
    /\ al.apc = "artist"
    /\ IF al.artist = al.n_artists
       THEN al' = [al EXCEPT !.apc = "distribute"]
       ELSE LET process == IF al.interactive_mode
                           THEN IF KeepsDecision(al.process) THEN al.process ELSE "?"
                           ELSE "A"
            IN al' = [al EXCEPT !.artist = @ + 1,
                                !.process = process,
                                !.apc = IF process \in ValidAnswers
                                        THEN "decide" ELSE "prompt"]
    /\ UNCHANGED <<coreVars, rw, disc, tr>>

\* main.py:351-352: one answer at the prompt
Prompt ==
    /\ al.apc = "prompt"
    /\ \E answer \in InputPool :
          LET process == OrYes(answer)
          IN al' = [al EXCEPT !.process = process,
                              !.asked = @ \cup {al.artist},
                              !.apc = IF process \in ValidAnswers
                                      THEN "decide" ELSE "prompt"]
    /\ UNCHANGED <<coreVars, rw, disc, tr>>

\* main.py:357-359: cancel, expand or skip
Decide ==
    /\ al.apc = "decide"
    /\ al' = [al EXCEPT !.decisions = Append(@, al.process),
                        !.apc = IF IsCancel(al.process) THEN "distribute"
                                ELSE IF IsExpand(al.process) THEN "albums"
                                ELSE "artist"]
    /\ UNCHANGED <<coreVars, rw, disc, tr>>

\* main.py:360-364: the albums and singles of the artist
ArtistAlbums ==
    /\ al.apc = "albums"
    /\ \E n \in 0..MaxAlbums :
          al' = AfterAlbum([al EXCEPT !.called = @ \cup {al.artist}], n)
    /\ UNCHANGED <<coreVars, rw, disc, tr>>

\* main.py:368-377: the album is fetched; a failure is followed by a pause
AlbumFetch ==
    /\ al.apc = "album_fetch"
    /\ \E ok \in BOOLEAN :
          al' = [al EXCEPT !.called = @ \cup {al.artist},
                           !.api_result = NoResult,
                           !.apc = IF ok THEN "features" ELSE "album_sleep"]
    /\ UNCHANGED <<coreVars, rw, disc, tr>>

\* main.py:375-376: tm.sleep(5), continue
AlbumRetry ==
    /\ al.apc = "album_sleep"
    /\ al' = [al EXCEPT !.apc = "album_fetch"]
    /\ UNCHANGED <<coreVars, rw, disc, tr>>

\* main.py:393-397: get_audio_features_with_retry returns the features, or
\* raises after its last retry and the handler prints the failure
AudioFeatures ==
    /\ al.apc = "features"
    /\ \E ok \in BOOLEAN :
          al' = [al EXCEPT !.called = @ \cup {al.artist},
                           !.api_result = IF ok THEN "features" ELSE NoResult,
                           !.exhausted = IF ok THEN @ ELSE @ + 1,
                           !.apc = "tracks"]
    /\ UNCHANGED <<coreVars, rw, disc, tr>>

\* main.py:399-418: the loop over api_result; None is not iterable
TrackLoop ==
    /\ al.apc = "tracks"
    /\ IF al.api_result = NoResult
       THEN al' = [al EXCEPT !.apc = "crashed"]
       ELSE al' = AfterAlbum([al EXCEPT !.contributed = @ + 1], al.albums_left - 1)
    /\ UNCHANGED <<coreVars, rw, disc, tr>>

(***************************************************************************)
(* Inputs and specifications.                                              *)
(***************************************************************************)
\* playlists of the account before the run, by name and items: "T",
\* "T part 01" and "Tz" are target names, "F" is the exclusion source
PlT(items) == [name |-> <<84>>, items |-> items]
PlTp(items) == [name |-> <<84, 32, 112, 97, 114, 116, 32, 48, 49>>, items |-> items]
PlTz(items) == [name |-> <<84, 122>>, items |-> items]
PlF(items) == [name |-> <<70>>, items |-> items]

\* accounts the run may meet
AccountPool ==
    {<<>>,
     <<PlT(<<3>>)>>,
     <<PlF(<<3>>)>>,
     <<PlTp(<<>>)>>,
     <<PlTz(<<>>)>>,
     <<PlF(<<1>>), PlT(<<3>>)>>,
     <<PlT(<<3>>), PlTz(<<4>>)>>,
     <<PlTp(<<>>), PlTz(<<3>>)>>,
     <<PlF(<<>>), PlF(<<3>>)>>,
     <<PlT(<<1>>), PlT(<<3>>)>>}

\* the values random() yields: increasing or decreasing with the ROWID
RandPool(n) == {[i \in 1..n |-> i], [i \in 1..n |-> n + 1 - i]}

NoGnt ==
    [called |-> FALSE, bookmark |-> NoBookmark, before |-> <<>>,
     uri |-> NULL, name |-> <<>>, is_new |-> FALSE, returned |-> <<>>]

\* the first run of main(): nothing is known of an earlier one
FirstRun == [n |-> 1, matched |-> {}, candidates |-> <<>>, rows |-> <<>>, calls |-> <<>>]

\* main() starts: empty Ledger (Settings.__init__), no track looked at
InitMain(cfg, account, rnd) ==
    /\ settings = cfg
    /\ spotify = account
    /\ rand = rnd
    /\ t_playlists = <<>>
    /\ t_tracks = <<>>
    /\ t_tracks_in_playlists = <<>>
    /\ pc = "scan"
    /\ scan_u = 1
    /\ match_found = FALSE
    /\ my_playlist_uri = NoBookmark
    /\ my_playlist_name = <<>>
    /\ tracks_saved = 0
    /\ rows = <<>>
    /\ row_i = 1
    /\ my_tracks = <<>>
    /\ track_count_overall = 0
    /\ track_count_in_playlist = 0
    /\ add_calls = <<>>
    /\ created = {}
    /\ target_since = 0
    /\ gnt = NoGnt
    /\ protected = {}
    /\ matched = {}
    /\ run = FirstRun

Init ==
    /\ \E cfg \in [max_tracks_to_save : 0..MaxSave,
                   max_tracks_per_playlist : 0..MaxPer,
                   allow_doubled_bpm : {TRUE}],
          account \in AccountPool,
          rnd \in RandPool(NTracks) :
            InitMain(cfg, account, rnd)
    /\ rw = RetryIdle
    /\ al = ArtistLoopIdle
    /\ disc = DiscIdle
    /\ tr = TrIdle

Next ==
    \/ ScanTrack
    \/ ScanDone
    \/ LoadPlaylists
    \/ SelectFirstTarget
    \/ DrainStep
    \/ AdvanceTarget
    \/ DrainEnd

Spec == Init /\ [][Next]_vars

\* get_audio_features_with_retry(my_tracks) on its own
InitRetry ==
    /\ InitMain([max_tracks_to_save |-> 0, max_tracks_per_playlist |-> 0,
                 allow_doubled_bpm |-> FALSE], <<>>, [i \in 1..NTracks |-> i])
    /\ \E m \in {2, max_retries_default}, d \in {initial_delay_default, 3} :
          rw = [rpc |-> "try", max_retries |-> m, initial_delay |-> d, retries |-> 0,
                delay |-> d, sleeps |-> <<>>, outcomes |-> <<>>, headers |-> <<>>]
    /\ al = ArtistLoopIdle
    /\ disc = DiscIdle
    /\ tr = TrIdle

NextRetry ==
    \/ RetryCallOk
    \/ RetryCallRateLimited
    \/ RetryCallFails
    \/ RetryRaise

SpecRetry == InitRetry /\ [][NextRetry]_vars

\* discover_artists_for_genre on its own: a genre filter that is blank or
\* not, with or without an artist filter
GenrePool == {<<32>>, <<32, 103, 32>>}
ArtistFilterPool == {<<>>, <<32, 103, 32>>}

InitDiscover ==
    /\ InitMain([max_tracks_to_save |-> 0, max_tracks_per_playlist |-> 0,
                 allow_doubled_bpm |-> FALSE], <<>>, [i \in 1..NTracks |-> i])
    /\ rw = RetryIdle
    /\ al = ArtistLoopIdle
    /\ tr = TrIdle
    /\ \E g \in GenrePool, a \in ArtistFilterPool, pp \in 0..MaxPlaylistPages,
          er \in BOOLEAN, tp \in {0, MaxTrackPages} :
          disc = [DiscIdle EXCEPT !.dpc = "start", !.genre_searchstring = g,
                                  !.artist_searchstring = a, !.playlist_pages = pp,
                                  !.expand_related = er, !.max_track_pages = tp,
                                  !.name_pool = {1}]

NextDiscover ==
    \/ DiscoverStart
    \/ ArtistSearch
    \/ TrackSearchPage
    \/ PlaylistSearchPage
    \/ PlaylistItemsPage
    \/ RelatedArtists

SpecDiscover == InitDiscover /\ [][NextDiscover]_vars

\* discovery against a catalog whose responses differ in the display name
\* they give to an artist: with a playlist harvest, or else with a
\* related-artist expansion
InitDiscoverNames ==
    /\ InitMain([max_tracks_to_save |-> 0, max_tracks_per_playlist |-> 0,
                 allow_doubled_bpm |-> FALSE], <<>>, [i \in 1..NTracks |-> i])
    /\ rw = RetryIdle
    /\ al = ArtistLoopIdle
    /\ tr = TrIdle
    /\ \E pp \in {0, MaxPlaylistPages}, tp \in {0, MaxTrackPages} :
          disc = [DiscIdle EXCEPT !.dpc = "start",
                                  !.genre_searchstring = <<32, 103, 32>>,
                                  !.playlist_pages = pp, !.expand_related = (pp = 0),
                                  !.max_track_pages = tp, !.name_pool = NamePool]

SpecDiscoverNames == InitDiscoverNames /\ [][NextDiscover]_vars

\* the functions of bpm_providers.py on their own: a provider chain, and a
\* tempo with a configuration that validate_settings accepts
RECURSIVE SeqsUpTo(_, _)
SeqsUpTo(S, n) ==
    IF n = 0 THEN {<<>>}
    ELSE LET shorter == SeqsUpTo(S, n - 1)
         IN shorter \cup {Append(q, x) : q \in shorter, x \in S}

TempoPool == {NoTempo} \cup 0..(8 * MaxBpm + 4)

InitTempo ==
    /\ InitMain([max_tracks_to_save |-> 0, max_tracks_per_playlist |-> 0,
                 allow_doubled_bpm |-> FALSE], <<>>, [i \in 1..NTracks |-> i])
    /\ rw = RetryIdle
    /\ al = ArtistLoopIdle
    /\ disc = DiscIdle
    /\ \E ps \in SeqsUpTo(ProviderPool, MaxProviders), t \in TempoPool,
          fl \in 0..MaxBpm, ce \in 0..MaxBpm, dbl \in BOOLEAN :
          /\ fl <= ce
          /\ tr = [TrIdle EXCEPT !.rpc = "chain", !.providers = ps, !.next = 1,
                                 !.npc = "todo", !.bpm = t, !.bpm_floor = fl,
                                 !.bpm_ceiling = ce, !.allow_doubled_bpm = dbl]

NextTempo ==
    \/ ProviderCall
    \/ ChainExhausted
    \/ Normalize

SpecTempo == InitTempo /\ [][NextTempo]_vars

\* the artist consumption loop on its own, over the artists discovery returned
InitArtists ==
    /\ InitMain([max_tracks_to_save |-> 0, max_tracks_per_playlist |-> 0,
                 allow_doubled_bpm |-> FALSE], <<>>, [i \in 1..NTracks |-> i])
    /\ rw = RetryIdle
    /\ disc = DiscIdle
    /\ tr = TrIdle
    /\ \E im \in BOOLEAN, n \in 0..NArtists :
          al = [ArtistLoopIdle EXCEPT !.apc = "artist", !.interactive_mode = im,
                                      !.n_artists = n]

NextArtists ==
    \/ ArtistTop
    \/ Prompt
    \/ Decide
    \/ ArtistAlbums
    \/ AlbumFetch
    \/ AlbumRetry
    \/ AudioFeatures
    \/ TrackLoop

SpecArtists == InitArtists /\ [][NextArtists]_vars

\* main() is one thread: it takes its next step whenever it has one
SpecArtistsFair == SpecArtists /\ WF_vars(NextArtists)

\* the distribution phase on its own, after a scan that recorded n candidates
\* (tracks 2..n+1, whose names differ) with tempi 2.5 and 3.0 BPM
MaxBulk == 97       \* largest number of candidates tried

BulkTracks(n) ==
    [i \in 1..n |-> [track_uri |-> i + 1, track_name |-> TrackName(i + 1),
                     track_bpm |-> IF i % 2 = 0 THEN 2 * bpm_ceiling ELSE 2 * bpm_ceiling - 1,
                     track_order |-> i]]

InitBulk ==
    /\ \E cfg \in [max_tracks_to_save : {0, my_api_limit + 1},
                   max_tracks_per_playlist : {0, my_api_limit + 1},
                   allow_doubled_bpm : {TRUE}],
          account \in {<<>>, <<PlT(<<2>>)>>},
          n \in (my_api_limit - 1)..MaxBulk :
            /\ settings = cfg
            /\ spotify = account
            /\ rand = [i \in 1..(MaxBulk + 1) |-> i]
            /\ t_tracks = BulkTracks(n)
    /\ t_playlists = <<>>
    /\ t_tracks_in_playlists = <<>>
    /\ pc = "load"
    /\ scan_u = NTracks + 1
    /\ match_found = TRUE
    /\ my_playlist_uri = NoBookmark
    /\ my_playlist_name = <<>>
    /\ tracks_saved = 0
    /\ rows = <<>>
    /\ row_i = 1
    /\ my_tracks = <<>>
    /\ track_count_overall = 0
    /\ track_count_in_playlist = 0
    /\ add_calls = <<>>
    /\ created = {}
    /\ target_since = 0
    /\ gnt = NoGnt
    /\ protected = {}
    /\ matched = {u \in Tracks : FALSE}
    /\ run = FirstRun
    /\ rw = RetryIdle
    /\ al = ArtistLoopIdle
    /\ disc = DiscIdle
    /\ tr = TrIdle

NextBulk ==
    \/ LoadPlaylists
    \/ SelectFirstTarget
    \/ DrainStep
    \/ AdvanceTarget
    \/ DrainEnd

SpecBulk == InitBulk /\ [][NextBulk]_vars

\* the candidate rows of a t_tracks table: those main() recorded with a tempo
\* (main.py:411-416); load_playlist_tracks binds no track_bpm (playlists.py:70-72)
CandidateRows(tt) == SelectSeq(tt, LAMBDA r : r.track_bpm # NULL)

\* main() is started again with the same configuration on the same account:
\* Settings.__init__ opens a new in-memory Ledger (settings.py:35) and main()
\* its locals anew (main.py:306-343); the account holds what the run before
\* left in it
Rerun ==
    /\ pc = "done"
    /\ run.n < MaxRuns
    /\ run' = [n |-> run.n + 1, matched |-> matched,
               candidates |-> CandidateRows(t_tracks), rows |-> rows,
               calls |-> add_calls]
    /\ \E rnd \in RandPool(NTracks) : rand' = rnd
    /\ t_playlists' = <<>>
    /\ t_tracks' = <<>>
    /\ t_tracks_in_playlists' = <<>>
    /\ pc' = "scan"
    /\ scan_u' = 1
    /\ match_found' = FALSE
    /\ my_playlist_uri' = NoBookmark
    /\ my_playlist_name' = <<>>
    /\ tracks_saved' = 0
    /\ rows' = <<>>
    /\ row_i' = 1
    /\ my_tracks' = <<>>
    /\ track_count_overall' = 0
    /\ track_count_in_playlist' = 0
    /\ add_calls' = <<>>
    /\ created' = {}
    /\ target_since' = 0
    /\ gnt' = NoGnt
    /\ protected' = {}
    /\ matched' = {}
    /\ UNCHANGED <<settings, spotify, rw, disc, tr, al>>

\* main() run, and run once more: on an account without playlists, with a
\* target, and with a playlist that has the name of a later part
InitRerun ==
    /\ \E cfg \in [max_tracks_to_save : {0, 1},
                   max_tracks_per_playlist : {0, 1},
                   allow_doubled_bpm : {TRUE}],
          account \in {<<>>, <<PlT(<<3>>)>>, <<PlTp(<<>>)>>},
          rnd \in RandPool(NTracks) :
            InitMain(cfg, account, rnd)
    /\ rw = RetryIdle
    /\ al = ArtistLoopIdle
    /\ disc = DiscIdle
    /\ tr = TrIdle

NextRerun ==
    \/ ScanTrack
    \/ ScanDone
    \/ LoadPlaylists
    \/ SelectFirstTarget
    \/ DrainStep
    \/ AdvanceTarget
    \/ DrainEnd
    \/ Rerun

SpecRerun == InitRerun /\ [][NextRerun]_vars


(***************************************************************************)
(* Properties.                                                             *)
(***************************************************************************)
\* the track URIs handed to add_playlist_tracks so far, in call order
AddedTracks == Flatten([i \in 1..Len(add_calls) |-> add_calls[i].tracks])

IsPrefix(a, b) == Len(a) <= Len(b) /\ SubSeq(b, 1, Len(a)) = a

\* the target-role rows of a t_playlists table
TargetSet(tp) == {tp[i] : i \in {j \in 1..Len(tp) : tp[j].is_target}}

\* C1: no track of an exclusion-source or target collection that load_playlists
\* read is ever passed to add_playlist_tracks, and no track URI is passed twice
C1_NoProtectedNoRepeat ==
    /\ \A i \in 1..Len(AddedTracks) : AddedTracks[i] \notin protected
    /\ \A i, j \in 1..Len(AddedTracks) : i # j => AddedTracks[i] # AddedTracks[j]

\* C2: with max_tracks_to_save = N > 0 and at least N unassigned tracks, only the
\* first N rows are ever appended or flushed, the drain stops at the N-th, and the
\* flushes then carry exactly the first N rows
C2_GlobalCap ==
    LET N == settings.max_tracks_to_save
    IN (N > 0 /\ pc \in {"drain", "next", "done"} /\ Len(rows) >= N) =>
          /\ IsPrefix(AddedTracks \o my_tracks, SubSeq(rows, 1, N))
          /\ (track_count_overall = N => pc = "done")
          /\ (pc = "done" => AddedTracks = SubSeq(rows, 1, N))

C2_Witness ==
    /\ pc = "done"
    /\ settings.max_tracks_to_save = 2
    /\ Len(rows) > 2
    /\ Len(add_calls) = 2
    /\ AddedTracks = SubSeq(rows, 1, 2)

\* C3: with max_tracks_per_playlist = M > 0, between tracks the count the target
\* had when selected plus the tracks placed in it stays within M; no flush goes to
\* a target selected with M or more tracks; and when the planner leaves a target,
\* the flushes it received since its selection carry exactly M - prior tracks
C3_PerTargetCap ==
    LET M == settings.max_tracks_per_playlist
        tenure == SubSeq(add_calls, target_since + 1, Len(add_calls))
    IN M > 0 =>
          /\ (pc \in {"drain", "done"} => tracks_saved + track_count_in_playlist <= M)
          /\ \A i \in 1..Len(add_calls) : add_calls[i].prior < M
          /\ (pc = "next" /\ target_since < Len(add_calls)) =>
                /\ \A i \in 1..Len(tenure) : tenure[i].uri = my_playlist_uri
                /\ SumLen([i \in 1..Len(tenure) |-> tenure[i].tracks]) = M - tracks_saved
                /\ my_tracks = <<>>

C3_Witness ==
    /\ settings.max_tracks_per_playlist = 2
    /\ Len(add_calls) = 2
    /\ add_calls[1].prior = 1
    /\ Len(add_calls[1].tracks) = 1
    /\ add_calls[2].uri # add_calls[1].uri

\* C4: every call of add_playlist_tracks carries between 1 and 95 track URIs and
\* the pending batch never holds more than 95
C4_BatchCeiling ==
    /\ \A i \in 1..Len(add_calls) :
          /\ Len(add_calls[i].tracks) >= 1
          /\ Len(add_calls[i].tracks) <= my_api_limit
    /\ Len(my_tracks) <= my_api_limit

C4_Witness ==
    /\ Len(add_calls) >= 1
    /\ Len(add_calls[1].tracks) = my_api_limit
    /\ track_count_overall > my_api_limit
    /\ pc = "done"

\* the drain ran to the end of the rows without the global cap triggering
NormalExhaustion ==
    /\ pc = "done"
    /\ match_found
    /\ \/ settings.max_tracks_to_save = 0
       \/ settings.max_tracks_to_save > Len(rows)

C6_EmptyBookmark ==
    (gnt.called /\ gnt.bookmark = NoBookmark) =>
        LET T == TargetSet(gnt.before)
        IN IF T # {}
           THEN /\ ~ gnt.is_new
                /\ \E r \in T : /\ r.playlist_uri = gnt.uri
                                /\ r.playlist_name = gnt.name
                                /\ \A q \in T : q = r \/ LexLess(r.playlist_name, q.playlist_name)
           ELSE /\ gnt.is_new
                /\ \A i \in 1..Len(gnt.before) : gnt.before[i].playlist_uri # gnt.uri

C6_Witness ==
    /\ gnt.called
    /\ gnt.bookmark = NoBookmark
    /\ Cardinality(TargetSet(gnt.before)) >= 2
    /\ ~ gnt.is_new

\* C7: with a bookmark get_next_target_playlist returns the first existing target
\* after the bookmark by name, or a new playlist if none follows the bookmark in
\* the candidate rows; never the bookmark nor a target at or before it
C7_AfterBookmark ==
    (gnt.called /\ gnt.bookmark # NoBookmark) =>
        LET T == TargetSet(gnt.before)
            B == {r \in T : r.playlist_uri = gnt.bookmark}
            After == {q \in T : \E b \in B : LexLess(b.playlist_name, q.playlist_name)}
        IN /\ gnt.uri # gnt.bookmark
           /\ IF After # {}
              THEN /\ ~ gnt.is_new
                   /\ \E r \in After :
                         /\ r.playlist_uri = gnt.uri
                         /\ r.playlist_name = gnt.name
                         /\ \A q \in After : q = r \/ LexLess(r.playlist_name, q.playlist_name)
              ELSE /\ gnt.is_new
                   /\ \A i \in 1..Len(gnt.before) : gnt.before[i].playlist_uri # gnt.uri

C7_Witness ==
    /\ gnt.called
    /\ gnt.bookmark # NoBookmark
    /\ ~ gnt.is_new
    /\ Cardinality(TargetSet(gnt.before)) >= 2

\* C8: a flush whose remote write fails is retried or aborts the drain, and
\* either way the tracks of the failed batch stay in the pending batch and no
\* further track is drained
C8_FailedFlushKeepsBatch ==
    \A i \in 1..Len(add_calls) :
        ~ add_calls[i].ok =>
            IF i = Len(add_calls)
            THEN my_tracks = add_calls[i].tracks
            ELSE /\ add_calls[i + 1].tracks = add_calls[i].tracks
                 /\ add_calls[i + 1].uri = add_calls[i].uri

RECURSIVE Pow2(_)
Pow2(n) == IF n = 0 THEN 1 ELSE 2 * Pow2(n - 1)

PlainFailuresBefore(n) == Cardinality({j \in 1..n : rw.outcomes[j] = "failed"})

C12_DiscoveryPrecedence ==
    /\ disc.a_hit => disc.calls.track = 0
    /\ (disc.dpc = "B" /\ disc.calls.track = 0) => disc.discovered = <<>>
    /\ disc.calls.track > 0 => (~ disc.a_hit /\ disc.calls.artist = number_of_markets)

C12_Witness ==
    /\ disc.dpc = "returned"
    /\ disc.a_hit
    /\ disc.calls.artist = 3
    /\ disc.max_track_pages > 0
    /\ disc.calls.track = 0
    /\ disc.result # {}

\* C13: when the genre filter and the artist hint are both empty or blank, no
\* call is made on the catalog client and the empty set is returned, whatever
\* playlist_pages and expand_related are
C13_EmptyQuery ==
    (Strip(disc.genre_searchstring) = <<>> /\ Strip(disc.artist_searchstring) = <<>>) =>
        /\ disc.dpc \in {"idle", "start", "returned"}
        /\ TotalCalls(disc) = 0
        /\ disc.result = {}

C13_Witness ==
    /\ disc.dpc = "returned"
    /\ disc.genre_searchstring = <<32>>
    /\ disc.artist_searchstring = <<>>
    /\ disc.playlist_pages > 0
    /\ disc.expand_related
    /\ TotalCalls(disc) = 0
    /\ disc.result = {}

\* the step is a call of the given kind on the catalog client that failed
FailedCall(kind) ==
    /\ TotalCalls(disc') = TotalCalls(disc) + 1
    /\ disc'.last = [kind |-> kind, ok |-> FALSE]

\* C14 as claimed: after a failed market probe, track-search page, item fetch
\* of a harvested playlist or related-artist seed, the next unit of the same
\* stage, if there is one, is queried next; and the returned set holds every
\* artist that a call listed
C14_Claimed ==
    [][/\ (FailedCall("artist") /\ disc.market_index < number_of_markets) =>
             (disc'.dpc = "A" /\ disc'.market_index = disc.market_index + 1)
       /\ (FailedCall("track") /\ disc.page_index + 1 < disc.max_track_pages) =>
             (disc'.dpc = "B" /\ disc'.page_index = disc.page_index + 1)
       /\ (FailedCall("items") /\ disc.playlists_left > 1) =>
             (disc'.dpc = "Citems" /\ disc'.playlists_left = disc.playlists_left - 1)
       /\ (FailedCall("related") /\ disc.seed_index < Len(disc.seeds)) =>
             (disc'.dpc = "D" /\ disc'.seed_index = disc.seed_index + 1)
       /\ disc'.dpc = "returned" => disc'.result = disc'.yielded]_vars

\* C14 as amended: a failed market probe or related-artist seed is followed by
\* the next market or seed; a failed track-search page ends stage B and a failed
\* playlist search or item fetch ends stage C, the artists discovered so far are
\* kept and the stages after it still run; the returned set holds every artist
\* that a call listed
C14_FailureContainment ==
    [][/\ (FailedCall("artist") /\ disc.market_index < number_of_markets) =>
             (disc'.dpc = "A" /\ disc'.market_index = disc.market_index + 1)
       /\ FailedCall("track") =>
             /\ disc'.discovered = disc.discovered
             /\ disc'.dpc = IF disc.playlist_pages > 0 THEN "C"
                            ELSE IF disc.expand_related /\ disc.discovered # <<>>
                                 THEN "D" ELSE "returned"
       /\ (FailedCall("items") \/ FailedCall("playlist")) =>
             /\ disc'.discovered = disc.discovered
             /\ disc'.dpc = IF disc.expand_related /\ disc.discovered # <<>>
                            THEN "D" ELSE "returned"
       /\ (FailedCall("related") /\ disc.seed_index < Len(disc.seeds)) =>
             (disc'.dpc = "D" /\ disc'.seed_index = disc.seed_index + 1)
       /\ disc'.dpc = "returned" => disc'.result = disc'.yielded]_vars

C14_Witness ==
    /\ disc.dpc = "returned"
    /\ disc.calls.artist = number_of_markets
    /\ disc.calls.track = 2
    /\ disc.calls.items = 1
    /\ disc.last = [kind |-> "items", ok |-> FALSE]
    /\ disc.result = {1, 2}

\* the providers of the chain whose result carries a tempo that is not None
WithTempo(ps) == {i \in 1..Len(ps) : ps[i] # NoTempo}

\* the providers of the chain whose result carries a tempo other than None and 0
WithNonZeroTempo(ps) == {i \in 1..Len(ps) : ps[i] # NoTempo /\ ps[i] # 0}

\* the chain was called in list order up to provider j and answered v
ResolvedAt(j, v) ==
    /\ tr.called = [i \in 1..j |-> i]
    /\ tr.resolved = v

\* C15 as claimed: the providers are called in list order up to the first one
\* whose tempo is not None, which may be 0, and its tempo is returned; None is
\* returned iff every provider has a None tempo
C15_Claimed ==
    tr.rpc = "resolved" =>
        IF WithTempo(tr.providers) = {}
        THEN ResolvedAt(Len(tr.providers), NoTempo)
        ELSE LET j == CHOOSE i \in WithTempo(tr.providers) :
                          \A k \in WithTempo(tr.providers) : i <= k
             IN ResolvedAt(j, tr.providers[j])

\* C15 as amended: the providers are called in list order up to the first one
\* whose tempo is neither None nor 0, and its tempo is returned; None is
\* returned iff every provider has a None or zero tempo
C15_FirstTempo ==
    /\ \A i \in 1..Len(tr.called) : tr.called[i] = i
    /\ tr.rpc = "resolved" =>
          IF WithNonZeroTempo(tr.providers) = {}
          THEN ResolvedAt(Len(tr.providers), NoTempo)
          ELSE LET j == CHOOSE i \in WithNonZeroTempo(tr.providers) :
                            \A k \in WithNonZeroTempo(tr.providers) : i <= k
               IN ResolvedAt(j, tr.providers[j])

C15_Witness ==
    /\ tr.rpc = "resolved"
    /\ tr.providers = <<0, 6>>
    /\ tr.called = <<1, 2>>
    /\ tr.resolved = 6

\* the normalization table for floor and ceiling in BPM and a tempo in quarter BPM
NormalizationTable(tempo, floor, ceiling, allow_doubling) ==
    IF tempo = NoTempo THEN [bpm |-> NoTempo, status |-> "missing"]
    ELSE IF 4 * floor <= tempo /\ tempo <= 4 * ceiling
    THEN [bpm |-> PyRoundDiv(tempo, 4), status |-> "exact"]
    ELSE IF allow_doubling /\ 8 * floor <= tempo /\ tempo <= 8 * ceiling
    THEN [bpm |-> PyRoundDiv(tempo, 8), status |-> "halved"]
    ELSE IF allow_doubling /\ 2 * floor <= tempo /\ tempo <= 2 * ceiling
    THEN [bpm |-> PyRoundDiv(tempo, 2), status |-> "doubled"]
    ELSE [bpm |-> NoTempo, status |-> "out_of_range"]

\* C16: for every configuration with 0 <= floor <= ceiling and every tempo,
\* normalize_bpm_for_settings returns what the normalization table gives, and a
\* tempo it returns lies within [floor, ceiling]
C16_NormalizationTable ==
    tr.npc = "done" =>
        /\ tr.normalized =
              NormalizationTable(tr.bpm, tr.bpm_floor, tr.bpm_ceiling, tr.allow_doubled_bpm)
        /\ tr.normalized.bpm # NoTempo =>
              (tr.bpm_floor <= tr.normalized.bpm /\ tr.normalized.bpm <= tr.bpm_ceiling)

\* C17: an insertion into t_tracks never changes or removes a record the table
\* holds, and never adds a second record with a URI the table holds: inserting
\* a track whose URI is present leaves the count, the name and the tempo as
\* they were
C17_TrackDedup ==
    [][/\ IsPrefix(t_tracks, t_tracks')
       /\ \A i, j \in 1..Len(t_tracks') :
             t_tracks'[i].track_uri = t_tracks'[j].track_uri => i = j]_vars

C17_Witness ==
    /\ pc = "drain"
    /\ \E i \in 1..Len(t_tracks) :
          /\ t_tracks[i].track_uri \in protected
          /\ t_tracks[i].track_bpm # NULL
          /\ \E k \in 1..Len(t_tracks_in_playlists) : t_tracks_in_playlists[k].track_id = i

\* the first track, in scan order, among the tracks with the name of u that
\* passed the tempo filter
FirstMatched(u) ==
    CHOOSE v \in matched :
        /\ TrackName(v) = TrackName(u)
        /\ \A w \in matched : TrackName(w) = TrackName(u) => v <= w

\* C18: the Ledger never holds two track records with the same name; of the
\* tempo-matching tracks with one name it holds the one recorded first; and no
\* two unassigned tracks have the same name
C18_NameCollision ==
    /\ \A i, j \in 1..Len(t_tracks) :
          t_tracks[i].track_name = t_tracks[j].track_name => i = j
    /\ \A u \in matched :
          /\ \E i \in 1..Len(t_tracks) : t_tracks[i].track_uri = FirstMatched(u)
          /\ u # FirstMatched(u) => TrackRowid(t_tracks, u) = NULL
    /\ \A i, j \in 1..Len(rows) :
          TrackName(rows[i]) = TrackName(rows[j]) => i = j

C18_Witness ==
    /\ pc = "done"
    /\ {1, 2} \subseteq matched
    /\ \E i \in 1..Len(rows) : rows[i] = 1
    /\ \E i \in 1..Len(AddedTracks) : AddedTracks[i] = 1

\* C19: for every playlist of the Ledger count_tracks_in_playlist is the number
\* of distinct tracks linked to it
C19_MembershipIdempotent ==
    \A p \in 1..Len(t_playlists) :
        count_tracks_in_playlist(t_playlists, t_tracks_in_playlists,
                                 t_playlists[p].playlist_uri)
          = Cardinality({t_tracks_in_playlists[k].track_id :
                           k \in {n \in 1..Len(t_tracks_in_playlists) :
                                    t_tracks_in_playlists[n].playlist_id = p}})

\* the t_tracks record of an unassigned track
RowRecord(u) == t_tracks[TrackRowid(t_tracks, u)]

\* C20 as claimed: the unassigned tracks are ordered by stored tempo and, among
\* tracks of equal tempo, by the order of their insertion into the Ledger
C20_Claimed ==
    \A i, j \in 1..Len(rows) :
        i < j =>
           \/ RowRecord(rows[i]).track_bpm < RowRecord(rows[j]).track_bpm
           \/ /\ RowRecord(rows[i]).track_bpm = RowRecord(rows[j]).track_bpm
              /\ TrackRowid(t_tracks, rows[i]) < TrackRowid(t_tracks, rows[j])

\* C20 as amended: the unassigned tracks are ordered by stored tempo (NULL
\* first) and, among tracks of equal tempo, by track_order, the value random()
\* gave the record when it was inserted
C20_DrainOrder ==
    \A i, j \in 1..Len(rows) :
        i < j =>
           \/ RowRecord(rows[i]).track_bpm < RowRecord(rows[j]).track_bpm
           \/ /\ RowRecord(rows[i]).track_bpm = RowRecord(rows[j]).track_bpm
              /\ RowRecord(rows[i]).track_order < RowRecord(rows[j]).track_order

C20_Witness ==
    /\ pc = "done"
    /\ Len(add_calls) >= 1
    /\ \E i, j \in 1..Len(rows) :
          /\ i < j
          /\ RowRecord(rows[i]).track_bpm = RowRecord(rows[j]).track_bpm
          /\ TrackRowid(t_tracks, rows[i]) > TrackRowid(t_tracks, rows[j])


\* the artists main() has decided about, and those after artist k
Decided == 1..Len(al.decisions)

\* C21: in the artist loop an answer is read only at the prompt, before any
\* catalog call for the artist; after a cancel the loop is over and neither
\* that artist nor a later one gets a catalog call; a skipped artist gets no
\* catalog call and the next artist is prompted; after "accept all" no later
\* artist is prompted and, once the loop is over, every remaining artist has
\* been expanded; without interactive mode nobody is prompted and every
\* artist is expanded
C21_ThreeWayDecision ==
    /\ [](\A k \in Decided :
            /\ al.decisions[k] \in {"C", "c"} =>
                  /\ k = Len(al.decisions)
                  /\ al.artist = k
                  /\ al.apc = "distribute"
                  /\ \A j \in k..al.n_artists : j \notin al.called
            /\ al.decisions[k] \in {"N", "n"} =>
                  /\ k \notin al.called
                  /\ k + 1 \in Decided => k + 1 \in al.asked
            /\ al.decisions[k] \in {"A", "a"} =>
                  /\ \A j \in (k + 1)..al.n_artists : j \notin al.asked
                  /\ al.apc = "distribute" =>
                        \A j \in k..al.n_artists : j \in al.called
            /\ ~ al.interactive_mode =>
                  /\ al.asked = {}
                  /\ al.decisions[k] = "A")
    /\ [](~ al.interactive_mode /\ al.apc = "distribute" =>
            al.called = 1..al.n_artists)
    /\ [][al'.asked # al.asked =>
            /\ al.apc = "prompt"
            /\ al.artist \notin Decided
            /\ al.artist \notin al.called
            /\ al'.asked = al.asked \cup {al.artist}]_vars

\* an artist was skipped, the next one was prompted and answered "accept
\* all", and the loop ended with that artist expanded
C21_Witness ==
    /\ al.interactive_mode
    /\ Len(al.decisions) = 2
    /\ al.decisions[1] \in {"N", "n"}
    /\ al.decisions[2] \in {"A", "a"}
    /\ al.asked = {1, 2}
    /\ al.called = {2}
    /\ al.apc = "distribute"

\* C22: when the tempo retrieval of an album fails after all retries,
\* main() goes on with the next album and artist
C22_ExhaustionNotFatal == al.exhausted > 0 => al.apc # "crashed"

\* C23: main() leaves the artist loop, to the distribution phase or with a
\* failure, whatever the remote calls answer
C23_ScanTerminates == <>(al.apc \in {"distribute", "crashed"})


\* C24: stage A probes the candidate markets in their order, one query per
\* market, only while nothing has been discovered; the probe that lists an
\* artist is the last one, and the map then holds the artists of that probe
\* only
C24_MarketOrder ==
    [][disc'.calls.artist # disc.calls.artist =>
         /\ disc.dpc = "A"
         /\ ~ disc.a_hit
         /\ disc.discovered = <<>>
         /\ disc.yielded = {}
         /\ disc.market_index = disc.calls.artist + 1
         /\ disc.market_index <= number_of_markets
         /\ disc'.calls.artist = disc.calls.artist + 1
         /\ disc'.dpc = "A" => disc'.market_index = disc.market_index + 1
         /\ disc'.a_hit =>
               /\ disc'.dpc # "A"
               /\ disc'.yielded # {}
               /\ Range(disc'.discovered) = disc'.yielded]_vars

\* the third market was the first to list artists, and nothing was called
\* after it
C24_Witness ==
    /\ disc.a_hit
    /\ disc.calls.artist = 3
    /\ TotalCalls(disc) = 3
    /\ disc.discovered # <<>>
    /\ disc.dpc = "returned"


\* C25: the map has one entry per artist: a call adds the artists it lists
\* that are new, adds no second entry for one that is known, and leaves
\* every listed artist with the display name of that call; the returned
\* set has one Artist per discovered artist, so no two share a URI
C25_OneEntryPerArtist ==
    /\ [](/\ Len(disc.discovered) = Cardinality(Range(disc.discovered))
          /\ disc.dpc = "returned" =>
                /\ {x.uri : x \in ArtistSet(disc)} = disc.result
                /\ \A x, y \in ArtistSet(disc) : x.uri = y.uri => x = y
                /\ \A x \in ArtistSet(disc) : x.name # NoName)
    /\ [][TotalCalls(disc') # TotalCalls(disc) =>
            /\ Range(disc'.discovered) = Range(disc.discovered) \cup disc'.listed.artists
            /\ \A a \in Artists :
                  disc'.names[a] = IF a \in disc'.listed.artists
                                   THEN disc'.listed.name ELSE disc.names[a]]_vars

\* one market listed both artists under one name, a related-artist call
\* listed the first again under the other name, and the returned set has
\* the first artist once, under the later name
C25_Witness ==
    /\ disc.dpc = "returned"
    /\ disc.calls.artist = 1
    /\ disc.calls.items = 0
    /\ disc.seeds = <<1, 2>>
    /\ disc.discovered = <<1, 2>>
    /\ ArtistSet(disc) = {[name |-> 2, uri |-> 1], [name |-> 1, uri |-> 2]}


\* C26: related-artist calls are made only with expand_related set and a
\* map that was not empty when the expansion started; the seeds are the
\* artists of the map at that moment, at most related_seed_cap of them (a
\* map of 501 artists gives its first 500), in the order of their discovery; each seed gets one call, in that order;
\* the seeds do not change while the expansion adds artists, and no call
\* ever removes an artist from the map
C26_RelatedExpansion ==
    /\ \A n \in {related_seed_cap - 1, related_seed_cap, related_seed_cap + 1} :
          SeedArtistIds([i \in 1..n |-> i])
             = [i \in 1..(IF n < related_seed_cap THEN n ELSE related_seed_cap) |-> i]
    /\ [](/\ disc.calls.related <= Len(disc.seeds)
          /\ Len(disc.seeds) <= related_seed_cap
          /\ (disc.calls.related > 0 \/ disc.dpc = "D") =>
                /\ disc.expand_related
                /\ disc.seeds # <<>>
                /\ IsPrefix(disc.seeds, disc.discovered)
          /\ disc.dpc = "D" => disc.seed_index = disc.calls.related + 1
          /\ (disc.dpc = "returned" /\ disc.seeds # <<>>) =>
                disc.calls.related = Len(disc.seeds))
    /\ [][/\ IsPrefix(disc.discovered, disc'.discovered)
          /\ (disc.dpc # "D" /\ disc'.dpc = "D") =>
                disc'.seeds = SeedArtistIds(disc'.discovered)
          /\ disc.dpc = "D" => disc'.seeds = disc.seeds
          /\ disc'.calls.related # disc.calls.related =>
                /\ disc.dpc = "D"
                /\ disc.seed_index <= Len(disc.seeds)
                /\ disc'.calls.related = disc.calls.related + 1]_vars

\* the expansion of the one discovered artist added another artist, which
\* got no related-artist call of its own
C26_Witness ==
    /\ disc.dpc = "returned"
    /\ disc.expand_related
    /\ disc.seeds = <<2>>
    /\ disc.discovered = <<2, 1>>
    /\ disc.calls.related = 1


\* C27: a harvested playlist is read in at most two pages of
\* playlist_page_size items: every item page is requested at offset 0 or 100
C27_TwoItemPages ==
    [][disc'.calls.items # disc.calls.items =>
          disc.playlist_offset < 2 * playlist_page_size]_vars


\* C28: when the track just drained makes track_count_overall equal to
\* max_tracks_to_save and also fills the current target up to
\* max_tracks_per_playlist, the pending batch with that track goes to the
\* current target and the drain stops: get_next_target_playlist is not
\* called, the target stays, no playlist is created; nothing follows the stop
C28_CapPriority ==
    [][/\ (/\ pc = "drain"
           /\ track_count_overall' = track_count_overall + 1
           /\ track_count_overall' = settings.max_tracks_to_save
           /\ settings.max_tracks_per_playlist # 0
           /\ track_count_in_playlist' + tracks_saved
                 >= settings.max_tracks_per_playlist) =>
             /\ pc' = "done"
             /\ Len(add_calls') = Len(add_calls) + 1
             /\ add_calls'[Len(add_calls')].uri = my_playlist_uri
             /\ add_calls'[Len(add_calls')].tracks = Append(my_tracks, rows[row_i])
             /\ my_tracks' = <<>>
             /\ gnt' = gnt
             /\ created' = created
             /\ my_playlist_uri' = my_playlist_uri
             /\ t_playlists' = t_playlists
             /\ Len(spotify') = Len(spotify)
       /\ pc # "done"]_vars

\* the second track drained reached both caps at once: the batch went to
\* the target selected first and the drain stopped there
C28_Witness ==
    /\ pc = "done"
    /\ track_count_overall = 2
    /\ track_count_overall = settings.max_tracks_to_save
    /\ settings.max_tracks_per_playlist # 0
    /\ track_count_in_playlist + tracks_saved >= settings.max_tracks_per_playlist
    /\ add_calls # <<>>
    /\ add_calls[Len(add_calls)].uri = my_playlist_uri
    /\ gnt.called


\* C29 as claimed: a playlist made by get_next_target_playlist has the
\* configured name exactly when it is the first one made in this run
C29_Claimed ==
    (gnt.called /\ gnt.is_new) =>
        (gnt.name = target_playlist <=> Cardinality(created) = 1)

\* C29: a playlist made by get_next_target_playlist has the configured name
\* if the Ledger held no target before the call, and otherwise that name
\* followed by " part " and the two-digit number of the targets the Ledger
\* held, whether they were loaded from the account or made in this run
C29_NewTargetName ==
    (gnt.called /\ gnt.is_new) =>
        LET n == Cardinality(TargetSet(gnt.before))
        IN /\ n < 100
           /\ gnt.name = IF n = 0 THEN target_playlist
                         ELSE target_playlist \o <<32, 112, 97, 114, 116, 32>>
                                 \o <<48 + (n \div 10), 48 + (n % 10)>>

\* the first playlist made in the run is "T part 01", the account having
\* one target already
C29_Witness ==
    /\ gnt.called
    /\ gnt.is_new
    /\ Cardinality(created) = 1
    /\ Cardinality(TargetSet(gnt.before)) = 1
    /\ gnt.name = <<84, 32, 112, 97, 114, 116, 32, 48, 49>>


\* C30: get_bpm_from_providers raises no exception, whatever the classes of
\* the providers in the chain
C30_NeverRaises == tr.rpc # "raised"

\* C37: a run that ends has made an add_playlist_tracks call for every
\* playlist it created
C37_NoUnusedTarget ==
    pc = "done" =>
        \A u \in created : \E i \in 1..Len(add_calls) : add_calls[i].uri = u

\* C36: every playlist made by create_playlist has a row in t_playlists
\* under its URI, with the target role and the name it was made with
C36_CreatedRecorded ==
    \A u \in created :
        \E i \in 1..Len(t_playlists) :
            /\ t_playlists[i].playlist_uri = u
            /\ t_playlists[i].is_target
            /\ t_playlists[i].playlist_name = spotify[u].name

\* C35: the calls of get_next_target_playlist of one run return no URI twice
C35_NoTargetTwice ==
    \A i, j \in 1..Len(gnt.returned) :
        gnt.returned[i] = gnt.returned[j] => i = j

\* the tracks passed to add_playlist_tracks since the current target was selected
TracksSinceSelection ==
    SumLen([i \in 1..(Len(add_calls) - target_since) |->
               add_calls[target_since + i].tracks])

\* C34: the pending batch is empty whenever the current target changes; a
\* track taken from the rows joins the pending batch or is passed, with the
\* batch, to the target that is current at that moment; while the drain
\* runs, every call since the target was selected was for that target, and
\* track_count_in_playlist is the number of tracks of those calls plus the
\* pending ones
C34_BatchEmptyAtChange ==
    /\ [][/\ my_playlist_uri' # my_playlist_uri =>
                my_tracks = <<>> /\ my_tracks' = <<>>
          /\ row_i' # row_i =>
                LET batch == Append(my_tracks, rows[row_i])
                IN /\ my_playlist_uri' = my_playlist_uri
                   /\ \/ my_tracks' = batch /\ add_calls' = add_calls
                      \/ /\ my_tracks' = <<>>
                         /\ Len(add_calls') = Len(add_calls) + 1
                         /\ add_calls'[Len(add_calls')].uri = my_playlist_uri
                         /\ add_calls'[Len(add_calls')].tracks = batch]_vars
    /\ [](pc = "drain" =>
            /\ \A i \in (target_since + 1)..Len(add_calls) :
                  add_calls[i].uri = my_playlist_uri
            /\ track_count_in_playlist = TracksSinceSelection + Len(my_tracks))

\* the first target took two tracks, the drain moved on to another target
\* and a third track is pending for it
C34_Witness ==
    /\ pc = "drain"
    /\ Len(gnt.returned) >= 2
    /\ target_since = 1
    /\ add_calls[1].uri # my_playlist_uri
    /\ Len(add_calls[1].tracks) = 2
    /\ Len(my_tracks) = 1
    /\ track_count_in_playlist = 1

\* C33: every track URI passed to add_playlist_tracks has a t_tracks row with a
\* stored tempo, recorded by main() for a track that matched the tempo filter;
\* a track that only load_playlist_tracks recorded (NULL tempo) is never among
\* the unassigned rows
C33_OnlyCandidatesAdded ==
    /\ \A i \in 1..Len(AddedTracks) :
          /\ AddedTracks[i] \in matched
          /\ \E j \in 1..Len(t_tracks) :
                /\ t_tracks[j].track_uri = AddedTracks[i]
                /\ t_tracks[j].track_bpm # NULL
    /\ \A i \in 1..Len(rows) :
          \A j \in 1..Len(t_tracks) :
             t_tracks[j].track_uri = rows[i] => t_tracks[j].track_bpm # NULL

\* C32: main()'s tempo filter agrees with normalize_bpm_for_settings: for every
\* tempo the scan may meet, main() records a candidate iff normalize returns a
\* value, and every tempo stored for a candidate is that normalized value, an
\* integer number of BPM within [bpm_floor, bpm_ceiling] (track_bpm is kept in
\* half-BPM units, normalize takes quarter-BPM units)
C32_FilterAgreesWithNormalize ==
    /\ \A f \in FeaturePool \ {NoFeature} :
          TempoMatches(PyRound(f)) <=>
             normalize_bpm_for_settings(2 * f, bpm_floor, bpm_ceiling,
                                        settings.allow_doubled_bpm).bpm # NoTempo
    /\ \A j \in 1..Len(t_tracks) :
          t_tracks[j].track_bpm # NULL =>
             /\ t_tracks[j].track_bpm % 2 = 0
             /\ 2 * bpm_floor <= t_tracks[j].track_bpm
             /\ t_tracks[j].track_bpm <= 2 * bpm_ceiling
             /\ \E f \in FeaturePool \ {NoFeature} :
                   LET n == normalize_bpm_for_settings(2 * f, bpm_floor, bpm_ceiling,
                                                       settings.allow_doubled_bpm)
                   IN n.bpm # NoTempo /\ t_tracks[j].track_bpm = 2 * n.bpm

\* the tracks the run before passed to add_playlist_tracks
AddedBefore == Flatten([i \in 1..Len(run.calls) |-> run.calls[i].tracks])

\* C31: when a run has completed with every flush successful, a second run with
\* the same configuration and catalog results passes no track to
\* add_playlist_tracks; stated for the first runs that flushed every unassigned
\* track, those max_tracks_to_save did not stop
C31_SecondRunAddsNothing ==
    (/\ run.n = 2
     /\ \A i \in 1..Len(run.calls) : run.calls[i].ok
     /\ AddedBefore = run.rows) => add_calls = <<>>

====
